---- MODULE Spec2Model ----
(***************************************************************************)
(* A model of gmail-tester.js: the query construction (_init_query), the   *)
(* search+decode pass (_get_recent_email), the polling loop                *)
(* (__check_inbox / check_inbox), get_messages, reply_to_email and        *)
(* refresh_access_token.                                                   *)
(*                                                                         *)
(* Spec runs one invocation of check_inbox, get_messages or                *)
(* reply_to_email. SubjectSpec, BodySpec and RefreshSpec run the reply     *)
(* subject rule, the body extraction and refresh_access_token on their     *)
(* own; PollerSpec is the polling loop with every await settled in the     *)
(* end; ConcurrentSpec interleaves two invocations of check_inbox.         *)
(*                                                                         *)
(* The collaborators (gmail.authorize, gmail.get_recent_email,             *)
(* gmail.get_email_attachments, users.messages.send) are the environment:  *)
(* every call either fails or returns a value drawn from a small set.      *)
(* Each invocation of a public operation keeps its locals in inv[i]; the   *)
(* source has no module-level mutable state.                               *)
(***************************************************************************)
EXTENDS Integers, Sequences, FiniteSets, TLC

VARIABLES inv

vars == <<inv>>

-----------------------------------------------------------------------------
(* Bounds of the model.                                                    *)

\* wait_time_sec is drawn from 0..MaxWaitTime (or left unset)
MaxWaitTime == 5
\* max_wait_time_sec is drawn from 0..MaxMaxWaitTime (or left unset)
MaxMaxWaitTime == 12
\* cap on the searches of one invocation (the loop itself has no such cap);
\* above the number of searches of every run that times out
MaxSearches == MaxMaxWaitTime + 2

-----------------------------------------------------------------------------
(* JavaScript values.  Strings are TLA+ strings; the other values that the *)
(* code tests for truthiness are tagged.                                   *)

Undefined == [type |-> "undefined"]
Null == [type |-> "null"]
NaN == [type |-> "NaN"]
Str(s) == [type |-> "string", val |-> s]
Num(n) == [type |-> "number", val |-> n]
Bool(b) == [type |-> "boolean", val |-> b]
Array(elements) == [type |-> "array", val |-> elements]
\* a Date object with its time value in milliseconds, and the Invalid Date
DateOf(ms) == [type |-> "Date", valid |-> TRUE, ms |-> ms]
InvalidDate == [type |-> "Date", valid |-> FALSE]

\* ToBoolean, as used by `if (x)`, `!x`, `x || y`
Truthy(v) ==
  CASE v.type = "undefined" -> FALSE
    [] v.type = "null" -> FALSE
    [] v.type = "NaN" -> FALSE
    [] v.type = "string" -> v.val # ""
    [] v.type = "number" -> v.val # 0
    [] v.type = "boolean" -> v.val
    [] OTHER -> TRUE

\* x || y
OrElse(x, y) == IF Truthy(x) THEN x ELSE y

\* the i-th character of a string
CharAt(s, i) == SubSeq(s, i, i)

Digits == "0123456789"

RECURSIVE NatToString(_)
\* Number.prototype.toString for a non-negative integer
NatToString(n) ==
  IF n < 10 THEN CharAt(Digits, n + 1)
  ELSE NatToString(n \div 10) \o CharAt(Digits, (n % 10) + 1)

\* template-literal conversion of a number (or NaN) to a string
NumberToString(v) ==
  IF v.type = "NaN" THEN "NaN"
  ELSE IF v.val < 0 THEN "-" \o NatToString(-v.val)
  ELSE NatToString(v.val)

\* the whitespace String.prototype.trim removes (of the characters modelled)
IsWhiteSpace(c) == c \in {" ", "\n", "\t"}

RECURSIVE TrimStart(_)
TrimStart(s) ==
  IF s # "" /\ IsWhiteSpace(CharAt(s, 1)) THEN TrimStart(Tail(s)) ELSE s

RECURSIVE TrimEnd(_)
TrimEnd(s) ==
  IF s # "" /\ IsWhiteSpace(CharAt(s, Len(s)))
  THEN TrimEnd(SubSeq(s, 1, Len(s) - 1))
  ELSE s

\* String.prototype.trim
Trim(s) == TrimEnd(TrimStart(s))

-----------------------------------------------------------------------------
(* _init_query                                                             *)

\* Math.round(new Date(d).getTime() / 1000): round half up
EpochSeconds(d) ==
  IF d.valid THEN Num((d.ms + 500) \div 1000) ELSE NaN

ToClause(to) == "to:\"" \o to.val \o "\" "
FromClause(from) == "from:\"" \o from.val \o "\" "
SubjectClause(subject) == "subject:(" \o subject.val \o ") "
AfterClause(after) == "after:" \o NumberToString(EpochSeconds(after)) \o " "
BeforeClause(before) == "before:" \o NumberToString(EpochSeconds(before)) \o " "

\* the query before the final trim
QueryParts(options) ==
  LET to == options.to
      from == options.from
      subject == options.subject
      after == options.after
      before == options.before
  IN  (IF Truthy(to) THEN ToClause(to) ELSE "")
      \o (IF Truthy(from) THEN FromClause(from) ELSE "")
      \o (IF Truthy(subject) THEN SubjectClause(subject) ELSE "")
      \o (IF Truthy(after) THEN AfterClause(after) ELSE "")
      \o (IF Truthy(before) THEN BeforeClause(before) ELSE "")

\* _init_query without its final `query = query.trim()`
_init_query_untrimmed(options) == QueryParts(options)

_init_query(options) == Trim(QueryParts(options))

-----------------------------------------------------------------------------
(* Strings to bytes and base64, as Buffer.from(s).toString("base64")       *)

\* the printable ASCII characters, code 32 to 126, in order; the grave
\* accent (code 96) cannot be written in a string of this language, no
\* string of the model holds it, and "\f" keeps its place
Printable ==
  " !\"#$%&'()*+,-./0123456789:;<=>?@ABCDEFGHIJKLMNOPQRSTUVWXYZ[\\]^_\fabcdefghijklmnopqrstuvwxyz{|}~"

\* the UTF-8 byte of an ASCII character
CharCode(c) ==
  IF c = "\n" THEN 10
  ELSE IF c = "\t" THEN 9
  ELSE IF c = "\f" THEN 12
  ELSE 31 + (CHOOSE k \in 1..Len(Printable) : CharAt(Printable, k) = c)

Base64Alphabet ==
  "ABCDEFGHIJKLMNOPQRSTUVWXYZabcdefghijklmnopqrstuvwxyz0123456789+/"

Base64Char(sextet) == CharAt(Base64Alphabet, sextet + 1)

\* the base64 characters of a group of one to three characters, padded
Base64Group(s) ==
  LET b1 == CharCode(CharAt(s, 1))
      b2 == IF Len(s) >= 2 THEN CharCode(CharAt(s, 2)) ELSE 0
      b3 == IF Len(s) >= 3 THEN CharCode(CharAt(s, 3)) ELSE 0
      c1 == Base64Char(b1 \div 4)
      c2 == Base64Char((b1 % 4) * 16 + (b2 \div 16))
      c3 == Base64Char((b2 % 16) * 4 + (b3 \div 64))
      c4 == Base64Char(b3 % 64)
  IN  IF Len(s) = 1 THEN c1 \o c2 \o "=="
      ELSE IF Len(s) = 2 THEN c1 \o c2 \o c3 \o "="
      ELSE c1 \o c2 \o c3 \o c4

RECURSIVE ToBase64(_)
\* standard base64, with padding, of a string of ASCII characters: group by
\* group, the string split at a multiple of three
ToBase64(s) ==
  IF s = "" THEN ""
  ELSE IF Len(s) <= 3 THEN Base64Group(s)
  ELSE LET half == 3 * ((Len(s) + 5) \div 6)
       IN  ToBase64(SubSeq(s, 1, half)) \o ToBase64(SubSeq(s, half + 1, Len(s)))

\* the character of a byte, of the bytes modelled (ASCII)
CharFromCode(b) ==
  IF b = 10 THEN "\n"
  ELSE IF b = 9 THEN "\t"
  ELSE IF b >= 32 /\ b <= 126 THEN CharAt(Printable, b - 31)
  ELSE "?"

\* the value of a base64 or base64url character
Base64Value(c) ==
  IF c = "-" THEN 62
  ELSE IF c = "_" THEN 63
  ELSE (CHOOSE k \in 1..Len(Base64Alphabet) : CharAt(Base64Alphabet, k) = c) - 1

\* the characters of a group of two to four base64 characters
FromBase64Group(s) ==
  LET v1 == Base64Value(CharAt(s, 1))
      v2 == Base64Value(CharAt(s, 2))
      v3 == IF Len(s) >= 3 THEN Base64Value(CharAt(s, 3)) ELSE 0
      v4 == IF Len(s) >= 4 THEN Base64Value(CharAt(s, 4)) ELSE 0
      c1 == CharFromCode(v1 * 4 + (v2 \div 16))
      c2 == CharFromCode((v2 % 16) * 16 + (v3 \div 4))
      c3 == CharFromCode((v3 % 4) * 64 + v4)
  IN  IF Len(s) = 2 THEN c1
      ELSE IF Len(s) = 3 THEN c1 \o c2
      ELSE c1 \o c2 \o c3

RECURSIVE FromBase64(_)
\* Buffer.from(data, "base64").toString("utf8") for data without padding:
\* both alphabets are accepted, a last group of one character gives nothing
FromBase64(s) ==
  IF Len(s) <= 1 THEN ""
  ELSE IF Len(s) <= 4 THEN FromBase64Group(s)
  ELSE LET half == 4 * ((Len(s) + 7) \div 8)
       IN  FromBase64(SubSeq(s, 1, half)) \o FromBase64(SubSeq(s, half + 1, Len(s)))

RECURSIVE UpToPadding(_)
\* the part of the data before its first "=": decoding stops there
UpToPadding(s) ==
  IF s = "" \/ CharAt(s, 1) = "=" THEN ""
  ELSE IF Len(s) = 1 THEN s
  ELSE LET half == Len(s) \div 2
           left == UpToPadding(SubSeq(s, 1, half))
       IN  IF Len(left) < half THEN left
           ELSE left \o UpToPadding(SubSeq(s, half + 1, Len(s)))

\* Buffer.from(data, "base64").toString("utf8")
DecodeBody(data) == FromBase64(UpToPadding(data))

RECURSIVE ReplaceAll(_, _, _)
\* s.replace(/<from>/g, to) for a one-character pattern
ReplaceAll(s, from, to) ==
  IF s = "" THEN ""
  ELSE IF Len(s) = 1 THEN (IF s = from THEN to ELSE s)
  ELSE LET half == Len(s) \div 2
       IN  ReplaceAll(SubSeq(s, 1, half), from, to)
           \o ReplaceAll(SubSeq(s, half + 1, Len(s)), from, to)

RECURSIVE StripPadding(_)
\* s.replace(/=+$/, "")
StripPadding(s) ==
  IF s # "" /\ CharAt(s, Len(s)) = "="
  THEN StripPadding(SubSeq(s, 1, Len(s) - 1))
  ELSE s

\* the base64url encoding of the reply
EncodeMessage(replyMessage) ==
  StripPadding(ReplaceAll(ReplaceAll(ToBase64(replyMessage), "+", "-"), "/", "_"))

RECURSIVE Join(_, _)
\* Array.prototype.join
Join(lines, sep) ==
  IF lines = <<>> THEN ""
  ELSE IF Len(lines) = 1 THEN lines[1]
  ELSE lines[1] \o sep \o Join(Tail(lines), sep)

-----------------------------------------------------------------------------
(* The messages of the mail service and their decoding                     *)

Header(name, value) == [name |-> name, value |-> value]

RECURSIVE _get_header(_, _)
\* headers.find(h => h.name === name), then `found && found.value`
_get_header(name, headers) ==
  IF headers = <<>> THEN Undefined
  ELSE IF Head(headers).name = name THEN Str(Head(headers).value)
  ELSE _get_header(name, Tail(headers))

\* a part of a MIME tree: data a string or undefined, parts an array or undefined
Part(mimeType, data, parts) ==
  [mimeType |-> mimeType, body |-> [data |-> data], parts |-> parts]

\* a single-part payload: the body is inline
Inline(mimeType, size, data) ==
  [mimeType |-> mimeType, body |-> [size |-> size, data |-> Str(data)],
   parts |-> Undefined]

\* a multipart payload: no inline body
Multipart(mimeType, parts) ==
  [mimeType |-> mimeType, body |-> [size |-> 0, data |-> Undefined],
   parts |-> parts]

RawMessage(threadId, internalDate, headers, content) ==
  [threadId |-> threadId, internalDate |-> internalDate,
   payload |-> [headers |-> headers, mimeType |-> content.mimeType,
                body |-> content.body, parts |-> content.parts]]

\* "hello", "<p>hi</p>" (base64url) and "bye", "<b>x</b>" (base64)
TextHello == Str("aGVsbG8=")
HtmlHi == Str("PHA-aGk8L3A-")
TextBye == Str("Ynll")
HtmlX == Str("PGI+eDwvYj4=")

\* a complete message, text/plain inline
MsgOrder ==
  RawMessage(Str("t1"), 1000,
    <<Header("Delivered-To", "me@x.io"), Header("From", "ann@x.io"),
      Header("Subject", "Order"), Header("Message-ID", "<1@x>")>>,
    Inline("text/plain", 5, TextHello.val))
\* two From headers, a subject that starts with "re:", and Message-Id;
\* text/html inline
MsgReply ==
  RawMessage(Str("t2"), 2000,
    <<Header("From", "bob@x.io"), Header("From", "eve@x.io"),
      Header("Subject", "re: Order"), Header("Message-Id", "<2@x>")>>,
    Inline("text/html", 9, HtmlHi.val))
\* an empty subject, no message id; an empty body and no parts
MsgEmptySubject ==
  RawMessage(Str("t3"), 3000, <<Header("From", "cy@x.io"), Header("Subject", "")>>,
    Multipart("text/plain", Undefined))
\* no From header; multipart/alternative
MsgNoFrom ==
  RawMessage(Str("t4"), 4000,
    <<Header("Subject", "Re: Hi"), Header("Message-ID", "<4@x>")>>,
    Multipart("multipart/alternative",
      Array(<<Part("text/plain", TextHello, Undefined),
              Part("text/html", HtmlHi, Undefined)>>)))
\* no threadId, an empty Message-ID before a Message-Id; multipart/mixed that
\* holds a multipart/alternative, an attachment and a second text/plain
MsgNoThread ==
  RawMessage(Undefined, 5000,
    <<Header("From", "dee@x.io"), Header("Subject", "Hi"),
      Header("Message-ID", ""), Header("Message-Id", "<5@x>")>>,
    Multipart("multipart/mixed",
      Array(<<Part("multipart/alternative", Undefined,
                   Array(<<Part("text/plain", TextHello, Undefined),
                           Part("text/html", HtmlX, Undefined)>>)),
              Part("application/pdf", Undefined, Array(<<>>)),
              Part("text/plain", TextBye, Undefined)>>)))
\* no message id; an inline body of another type
MsgNoId ==
  RawMessage(Str("t6"), 6000, <<Header("From", "fay@x.io"), Header("Subject", "Hi")>>,
    Inline("application/json", 3, TextBye.val))

\* the raw messages the service may return
RawMessages ==
  {MsgOrder, MsgReply, MsgEmptySubject, MsgNoFrom, MsgNoThread, MsgNoId}

\* what a search may return: nothing, one message, or several
Batches ==
  {<<>>} \cup {<<m>> : m \in RawMessages}
  \cup { <<MsgOrder, MsgReply>>, <<MsgReply, MsgOrder>>, <<MsgNoFrom, MsgOrder>>,
         <<MsgOrder, MsgNoThread>>, <<MsgNoId, MsgReply, MsgOrder>> }

\* what gmail.get_email_attachments may return
AttachmentLists ==
  { <<>>,
    <<[filename |-> "a.txt", mimeType |-> "text/plain", data |-> "aGk="]>> }

\* the email object built from one raw message (before body and attachments)
EmailOf(gmail_email) ==
  [from |-> _get_header("From", gmail_email.payload.headers),
   subject |-> _get_header("Subject", gmail_email.payload.headers),
   receiver |-> _get_header("Delivered-To", gmail_email.payload.headers),
   date |-> DateOf(gmail_email.internalDate),
   threadId |-> gmail_email.threadId,
   messageId |-> OrElse(_get_header("Message-ID", gmail_email.payload.headers),
                        _get_header("Message-Id", gmail_email.payload.headers))]

\* email.<k> = v
WithField(email, k, v) == (k :> v) @@ email

\* what the body extraction gives: a body, or the TypeError it throws
Decoded(email_body) == [ok |-> TRUE, value |-> email_body]
DecodeTypeError == [type |-> "error", message |-> "TypeError"]
DecodeFailure == [ok |-> FALSE, error |-> DecodeTypeError]

RECURSIVE WalkParts(_, _)
\* the `while (parts.length)` loop: the work queue and the body so far.
\* Buffer.from(undefined, "base64") throws
WalkParts(parts, email_body) ==
  IF parts = <<>> THEN Decoded(email_body)
  ELSE LET part == Head(parts)
           rest == IF Truthy(part.parts) THEN Tail(parts) \o part.parts.val
                   ELSE Tail(parts)
       IN  IF part.mimeType = "text/plain"
           THEN IF part.body.data = Undefined THEN DecodeFailure
                ELSE WalkParts(rest, [email_body EXCEPT
                                        !.text = DecodeBody(part.body.data.val)])
           ELSE IF part.mimeType = "text/html"
           THEN IF part.body.data = Undefined THEN DecodeFailure
                ELSE WalkParts(rest, [email_body EXCEPT
                                        !.html = DecodeBody(part.body.data.val)])
           ELSE WalkParts(rest, email_body)

\* the body extraction with `default:` under `case "text/html":`
EmailBody_DefaultHtml(payload) ==
  LET email_body == [html |-> "", text |-> ""]
  IN  IF Truthy(Num(payload.body.size))
      THEN IF payload.body.data = Undefined THEN DecodeFailure
           ELSE IF payload.mimeType = "text/plain"
           THEN Decoded([email_body EXCEPT !.text = DecodeBody(payload.body.data.val)])
           ELSE Decoded([email_body EXCEPT !.html = DecodeBody(payload.body.data.val)])
      ELSE IF payload.parts = Undefined THEN DecodeFailure
      ELSE WalkParts(payload.parts.val, email_body)

\* the body extraction of `if (options.include_body) { ... }`; spreading
\* payload.parts throws when there are none
EmailBody(payload) ==
  LET email_body == [html |-> "", text |-> ""]
  IN  IF Truthy(Num(payload.body.size))
      THEN IF payload.body.data = Undefined THEN DecodeFailure
           ELSE IF payload.mimeType = "text/html"
           THEN Decoded([email_body EXCEPT !.html = DecodeBody(payload.body.data.val)])
           ELSE Decoded([email_body EXCEPT !.text = DecodeBody(payload.body.data.val)])
      ELSE IF payload.parts = Undefined THEN DecodeFailure
      ELSE WalkParts(payload.parts.val, email_body)

\* the email object without `email.body = email_body`
EmailWithBody_NoBody(gmail_email, options) == EmailOf(gmail_email)

\* the email object of one raw message before its attachments are fetched
\* (the body extraction, if any, succeeds)
EmailWithBody(gmail_email, options) ==
  IF Truthy(options.include_body)
  THEN WithField(EmailOf(gmail_email), "body", EmailBody(gmail_email.payload).value)
  ELSE EmailOf(gmail_email)

-----------------------------------------------------------------------------
(* Numbers as the polling loop uses them                                   *)

IsNumber(v) == v.type = "number"

\* a + b: a number when both are numbers, NaN otherwise (undefined -> NaN)
Add(a, b) ==
  IF a.type = "number" /\ b.type = "number" THEN Num(a.val + b.val) ELSE NaN

\* a >= b: false as soon as one side is NaN or undefined
GreaterOrEqual(a, b) ==
  a.type = "number" /\ b.type = "number" /\ a.val >= b.val

-----------------------------------------------------------------------------
(* Options                                                                 *)

\* an options object none of whose properties is set
NoOptions ==
  [to |-> Undefined, from |-> Undefined, subject |-> Undefined,
   after |-> Undefined, before |-> Undefined, label |-> Undefined,
   include_body |-> Undefined, include_attachments |-> Undefined,
   wait_time_sec |-> Undefined, max_wait_time_sec |-> Undefined]

\* r with the fields of s set (s names fields of r only)
With(r, s) == s @@ r

DefaultWaitTimeSec == 30
DefaultMaxWaitTimeSec == 30

\* the default value of check_inbox's options parameter
DefaultOptions ==
  With(NoOptions,
       [wait_time_sec |-> Num(DefaultWaitTimeSec),
        max_wait_time_sec |-> Num(DefaultMaxWaitTimeSec),
        include_body |-> Bool(FALSE), label |-> Str("INBOX")])

\* typeof v, for the values an options argument takes
TypeOf(v) == IF "type" \in DOMAIN v THEN v.type ELSE "object"

-----------------------------------------------------------------------------
(* Errors                                                                  *)

Error(message) == [type |-> "error", message |-> message]

\* what the collaborators reject with
AuthorizeError == Error("authorize failed")
SearchError == Error("search failed")
AttachmentsError == Error("attachment fetch failed")
SendError == Error("send failed")

NotFoundError == Error("No email found matching the provided criteria.")
MalformedEmailError ==
  Error("Missing required information from the original email.")

-----------------------------------------------------------------------------
(* One invocation of a public operation: its arguments, its locals, where  *)
(* it stands, and what it has asked of the collaborators so far.           *)

NewCall(op, arg, replyContent) ==
  [op |-> op, arg |-> arg, replyContent |-> replyContent,
   pc |-> "start", status |-> "running", ret |-> Undefined, error |-> Undefined,
   options |-> NoOptions, query |-> "", gmail_emails |-> <<>>, emails |-> <<>>,
   found_emails |-> Null, done_waiting_time |-> Num(0),
   messageLines |-> <<>>, encodedMessage |-> "", threadId |-> Undefined,
   sent |-> <<>>, searches |-> <<>>, failed |-> "none",
   nAuthorize |-> 0, nSearch |-> 0, nFetch |-> 0, nSleep |-> 0]

\* `return v`
Return(c, v) == With(c, [pc |-> "done", status |-> "returned", ret |-> v])

\* the invocation rejects with err
Reject(c, err) == With(c, [pc |-> "done", status |-> "thrown", error |-> err])

\* get_messages with a catch that throws again
get_messages_catch_rethrow(c, err) == Reject(c, err)

\* get_messages: `catch (err) { console.log(...) }`, then the function ends
get_messages_catch(c, err) == Return(c, Undefined)

\* __check_inbox with a catch that only logs
check_inbox_catch_swallow(c, err) == Return(c, Null)

\* __check_inbox: `catch (err) { console.log(...); throw err; }`
check_inbox_catch(c, err) == Reject(c, err)

\* err is thrown inside the invocation
Throw(c, err) ==
  CASE c.op = "check_inbox" -> check_inbox_catch(c, err)
    [] c.op = "get_messages" -> get_messages_catch(c, err)
    [] c.op = "reply_to_email" -> Reject(c, err)

\* _get_recent_email up to its first await
EnterPass(c) ==
  With(c, [query |-> _init_query(c.options), emails |-> <<>>,
           gmail_emails |-> <<>>, pc |-> "authorize"])

\* `=` where the code has `+=`
NextWaitingTime_Assign(done_waiting_time, wait_time_sec) == wait_time_sec

\* the loop without `done_waiting_time += wait_time_sec`
NextWaitingTime_Unchanged(done_waiting_time, wait_time_sec) == done_waiting_time

\* done_waiting_time += wait_time_sec
NextWaitingTime(done_waiting_time, wait_time_sec) ==
  Add(done_waiting_time, wait_time_sec)

\* `>` where the code has `>=`
WaitingTimeExceeded_Strict(done_waiting_time, max_wait_time_sec) ==
  IsNumber(done_waiting_time) /\ IsNumber(max_wait_time_sec)
  /\ done_waiting_time.val > max_wait_time_sec.val

\* `<=` where the code has `>=`
WaitingTimeExceeded_Flipped(done_waiting_time, max_wait_time_sec) ==
  IsNumber(done_waiting_time) /\ IsNumber(max_wait_time_sec)
  /\ done_waiting_time.val <= max_wait_time_sec.val

\* done_waiting_time >= max_wait_time_sec
WaitingTimeExceeded(done_waiting_time, max_wait_time_sec) ==
  GreaterOrEqual(done_waiting_time, max_wait_time_sec)

\* __check_inbox with `emails.length > 1` where the code has `> 0`
CheckInboxAfterPass_MoreThanOne(c) ==
  IF Len(c.emails) > 1
  THEN Return(With(c, [found_emails |-> Array(c.emails)]), Array(c.emails))
  ELSE LET waited == Add(c.done_waiting_time, c.options.wait_time_sec)
           d == With(c, [done_waiting_time |-> waited])
       IN  IF GreaterOrEqual(waited, c.options.max_wait_time_sec)
           THEN Return(d, d.found_emails)
           ELSE With(d, [pc |-> "sleep"])

\* __check_inbox with the comparison made before `done_waiting_time +=`
CheckInboxAfterPass_CheckFirst(c) ==
  IF Len(c.emails) > 0
  THEN Return(With(c, [found_emails |-> Array(c.emails)]), Array(c.emails))
  ELSE IF GreaterOrEqual(c.done_waiting_time, c.options.max_wait_time_sec)
  THEN Return(c, c.found_emails)
  ELSE With(c, [done_waiting_time |->
                  Add(c.done_waiting_time, c.options.wait_time_sec),
                pc |-> "sleep"])

\* __check_inbox from the return of _get_recent_email to the next await
CheckInboxAfterPass(c) ==
  IF Len(c.emails) > 0
  THEN Return(With(c, [found_emails |-> Array(c.emails)]), Array(c.emails))
  ELSE LET waited == NextWaitingTime(c.done_waiting_time, c.options.wait_time_sec)
           d == With(c, [done_waiting_time |-> waited])
       IN  IF WaitingTimeExceeded(waited, c.options.max_wait_time_sec)
           THEN Return(d, d.found_emails)
           ELSE With(d, [pc |-> "sleep"])

\* /^Re:/.test(subject): the test without the i flag
StartsWithRe_CaseSensitive(subject) ==
  Len(subject) >= 3 /\ SubSeq(subject, 1, 3) = "Re:"

\* /^Re:/i.test(subject)
StartsWithRe(subject) ==
  /\ Len(subject) >= 3
  /\ CharAt(subject, 1) \in {"R", "r"}
  /\ CharAt(subject, 2) \in {"E", "e"}
  /\ CharAt(subject, 3) = ":"

\* let replySubject = originalSubject;
\* if (!/^Re:/i.test(replySubject)) replySubject = "Re: " + replySubject
ReplySubject(originalSubject) ==
  IF StartsWithRe(originalSubject) THEN originalSubject
  ELSE "Re: " \o originalSubject

\* the last email where the code takes the first
OriginalEmail_Last(emails) == emails[Len(emails)]

\* const originalEmail = emails[0]
OriginalEmail(emails) == emails[1]

\* the check without `|| !threadId`
MissingRequired_NoThreadId(originalEmail) ==
  \/ ~Truthy(originalEmail.from)
  \/ ~Truthy(originalEmail.subject)

\* !originalFrom || !originalSubject || !threadId
MissingRequired(originalEmail) ==
  \/ ~Truthy(originalEmail.from)
  \/ ~Truthy(originalEmail.subject)
  \/ ~Truthy(originalEmail.threadId)

\* the message without `messageLines.push(`References: ...`)`
MessageLines_NoReferences(originalEmail, replyContent) ==
  LET originalMessageId == OrElse(originalEmail.messageId, Str(""))
  IN  <<"From: me",
        "To: " \o originalEmail.from.val,
        "Subject: " \o ReplySubject(originalEmail.subject.val)>>
      \o (IF Truthy(originalMessageId)
          THEN <<"In-Reply-To: " \o originalMessageId.val>>
          ELSE <<>>)
      \o <<"", replyContent>>

\* const messageLines = [...]; the two pushes of the threading headers;
\* messageLines.push("", replyContent)
MessageLines(originalEmail, replyContent) ==
  LET originalMessageId == OrElse(originalEmail.messageId, Str(""))
  IN  <<"From: me",
        "To: " \o originalEmail.from.val,
        "Subject: " \o ReplySubject(originalEmail.subject.val)>>
      \o (IF Truthy(originalMessageId)
          THEN <<"In-Reply-To: " \o originalMessageId.val,
                 "References: " \o originalMessageId.val>>
          ELSE <<>>)
      \o <<"", replyContent>>

\* reply_to_email from the return of _get_recent_email to the next await
ReplyAfterPass(c) ==
  IF ~Truthy(Array(c.emails)) \/ Len(c.emails) = 0
  THEN Throw(c, NotFoundError)
  ELSE IF MissingRequired(OriginalEmail(c.emails))
  THEN Throw(c, MalformedEmailError)
  ELSE LET lines == MessageLines(OriginalEmail(c.emails), c.replyContent)
       IN  With(c, [messageLines |-> lines,
                    encodedMessage |-> EncodeMessage(Join(lines, "\n")),
                    threadId |-> OriginalEmail(c.emails).threadId,
                    pc |-> "reply_authorize"])

\* the caller's code after `await _get_recent_email(...)` returns c.emails
AfterPass(c) ==
  CASE c.op = "check_inbox" -> CheckInboxAfterPass(c)
    [] c.op = "get_messages" -> Return(c, Array(c.emails))
    [] c.op = "reply_to_email" -> ReplyAfterPass(c)

RECURSIVE DecodeLoop(_)
\* the `for (const gmail_email of gmail_emails)` loop up to the next await
DecodeLoop(c) ==
  IF Len(c.emails) = Len(c.gmail_emails) THEN AfterPass(c)
  ELSE LET gmail_email == c.gmail_emails[Len(c.emails) + 1]
       IN  IF Truthy(c.options.include_body) /\ ~EmailBody(gmail_email.payload).ok
           THEN Throw(With(c, [failed |-> "decode"]), DecodeTypeError)
           ELSE IF Truthy(c.options.include_attachments)
           THEN With(c, [pc |-> "attachments"])
           ELSE DecodeLoop(With(c, [emails |->
                  Append(c.emails, EmailWithBody(gmail_email, c.options))]))

-----------------------------------------------------------------------------
(* The arguments the operations are invoked with                           *)

WaitTimes == {Undefined} \cup {Num(n) : n \in 0..MaxWaitTime}
MaxWaitTimes == {Undefined} \cup {Num(n) : n \in 0..MaxMaxWaitTime}
Flags == {Undefined, Bool(TRUE)}
\* include_body and include_attachments: neither, one or the other
Includes ==
  { [include_body |-> Undefined, include_attachments |-> Undefined],
    [include_body |-> Bool(TRUE), include_attachments |-> Undefined],
    [include_body |-> Undefined, include_attachments |-> Bool(TRUE)] }

\* options for the polling loop
PollerOptions ==
  { With(NoOptions, [subject |-> Str("Order"), wait_time_sec |-> w,
                     max_wait_time_sec |-> m, include_body |-> inc.include_body,
                     include_attachments |-> inc.include_attachments])
    : w \in WaitTimes, m \in MaxWaitTimes, inc \in Includes }

\* every set/unset combination of the five filter fields
FilterOptions ==
  { With(NoOptions, [to |-> t, from |-> f, subject |-> s, after |-> a, before |-> b])
    : t \in {Undefined, Str(""), Str("me@x.io")},
      f \in {Undefined, Str(""), Str("ann@x.io")},
      s \in {Undefined, Str(""), Str(" Order 66 ")},
      a \in {Undefined, DateOf(1500), InvalidDate},
      b \in {Undefined, DateOf(0), DateOf(86400499)} }

ReplyOptions ==
  { With(NoOptions, [subject |-> Str("Order"), label |-> l, include_body |-> b,
                     include_attachments |-> a, wait_time_sec |-> w])
    : l \in {Undefined, Str("SPAM")}, a \in Flags, b \in Flags,
      w \in {Undefined, Num(1)} }

ReplyContents == {"Thanks!", ""}

\* the invocations: an omitted options argument is undefined; check_inbox
\* was once called with positional arguments, the third one a string
Calls ==
  {NewCall("check_inbox", o, "") : o \in {Undefined, Str("Order")} \cup PollerOptions}
  \cup {NewCall("get_messages", o, "") : o \in {Undefined} \cup FilterOptions
          \cup {With(NoOptions, [include_body |-> b, include_attachments |-> a])
                : a \in Flags, b \in Flags}}
  \cup {NewCall("reply_to_email", o, r) : o \in {Undefined} \cup ReplyOptions,
                                          r \in ReplyContents}

\* what users.messages.send resolves with (response.data)
SendResults == {[id |-> "sent-1"], [id |-> "sent-2"]}

-----------------------------------------------------------------------------
(* The steps of an invocation, from one await to the next                  *)

\* the locals with done_waiting_time kept in one place for all invocations
Set_SharedWaitingTime(i, c) ==
  inv' = [j \in DOMAIN inv |->
            IF j = i THEN c
            ELSE [inv[j] EXCEPT !.done_waiting_time = c.done_waiting_time]]

\* the step changes the locals of invocation i, and of no other
Set(i, c) == inv' = [inv EXCEPT ![i] = c]

\* the public operation is entered and runs to its first await
Start(i) ==
  LET c == inv[i]
      given == IF c.arg = Undefined
               THEN (IF c.op = "check_inbox" THEN DefaultOptions ELSE NoOptions)
               ELSE c.arg
  IN  /\ c.pc = "start"
      /\ IF c.op = "check_inbox" /\ TypeOf(given) # "object"
         THEN Set(i, With(c, [pc |-> "done", status |-> "exited"]))
         ELSE Set(i, EnterPass(With(c, [options |-> given])))

\* `await gmail.authorize(credentials, token)` in _get_recent_email
Authorize(i) ==
  LET c == With(inv[i], [nAuthorize |-> inv[i].nAuthorize + 1])
  IN  /\ inv[i].pc = "authorize"
      /\ \/ Set(i, With(c, [pc |-> "search"]))
         \/ Set(i, Throw(With(c, [failed |-> "authorize"]), AuthorizeError))

\* `await gmail.get_recent_email(oAuth2Client, query, options.label)`
Search(i) ==
  LET c == With(inv[i], [nSearch |-> inv[i].nSearch + 1])
  IN  /\ inv[i].pc = "search"
      /\ inv[i].nSearch < MaxSearches
      /\ \/ \E batch \in Batches :
              Set(i, DecodeLoop(With(c, [gmail_emails |-> batch,
                                         searches |-> Append(c.searches, batch)])))
         \/ Set(i, Throw(With(c, [failed |-> "search"]), SearchError))

\* `await gmail.get_email_attachments(oAuth2Client, gmail_email)`
FetchAttachments(i) ==
  LET c == With(inv[i], [nFetch |-> inv[i].nFetch + 1])
      email == EmailWithBody(c.gmail_emails[Len(c.emails) + 1], c.options)
  IN  /\ inv[i].pc = "attachments"
      /\ \/ \E attachments \in AttachmentLists :
              Set(i, DecodeLoop(With(c, [emails |->
                     Append(c.emails, WithField(email, "attachments", attachments))])))
         \/ Set(i, Throw(With(c, [failed |-> "attachments"]), AttachmentsError))

\* the sleep followed by `return found_emails` instead of the next iteration
Sleep_ThenReturn(i) ==
  LET c == With(inv[i], [nSleep |-> inv[i].nSleep + 1])
  IN  /\ inv[i].pc = "sleep"
      /\ Set(i, Return(c, c.found_emails))

\* `await new Promise(resolve => setTimeout(resolve, wait_time_sec * 1000))`,
\* then `while (!found_emails)`
Sleep(i) ==
  LET c == With(inv[i], [nSleep |-> inv[i].nSleep + 1])
  IN  /\ inv[i].pc = "sleep"
      /\ IF ~Truthy(c.found_emails)
         THEN Set(i, EnterPass(c))
         ELSE Set(i, Return(c, c.found_emails))

\* `await require("./gmail").authorize(credentials, token)` in reply_to_email
ReplyAuthorize(i) ==
  LET c == With(inv[i], [nAuthorize |-> inv[i].nAuthorize + 1])
  IN  /\ inv[i].pc = "reply_authorize"
      /\ \/ Set(i, With(c, [pc |-> "send"]))
         \/ Set(i, Reject(With(c, [failed |-> "authorize"]), AuthorizeError))

\* `await gmailClient.users.messages.send({...})`, then `return response.data`
Send(i) ==
  LET request == [userId |-> "me",
                  resource |-> [raw |-> inv[i].encodedMessage,
                                threadId |-> inv[i].threadId]]
      c == With(inv[i], [sent |-> Append(inv[i].sent, request)])
  IN  /\ inv[i].pc = "send"
      /\ \/ \E data \in SendResults : Set(i, Return(c, data))
         \/ Set(i, Reject(With(c, [failed |-> "send"]), SendError))

\* one invocation at a time
Invocations == {1}

Init == inv \in [Invocations -> Calls]

Next ==
  \E i \in Invocations :
    \/ Start(i)
    \/ Authorize(i)
    \/ Search(i)
    \/ FetchAttachments(i)
    \/ Sleep(i)
    \/ ReplyAuthorize(i)
    \/ Send(i)

Spec == Init /\ [][Next]_vars

-----------------------------------------------------------------------------
(* Vocabulary of the properties                                            *)

\* the invocations of one operation
CallsOf(op) == {i \in Invocations : inv[i].op = op}

\* emails is the decoding of batch, message by message
Decodes(emails, batch) ==
  /\ Len(emails) = Len(batch)
  /\ \A n \in 1..Len(batch) :
       \A f \in DOMAIN EmailOf(batch[n]) : emails[n][f] = EmailOf(batch[n])[f]

\* every search so far came back empty
AllEmpty(searches) == \A k \in 1..Len(searches) : searches[k] = <<>>

\* the k-th search is the first one that came back non-empty
FirstNonEmptyAt(searches, k) ==
  /\ k \in 1..Len(searches)
  /\ searches[k] # <<>>
  /\ \A j \in 1..(k - 1) : searches[j] = <<>>

\* FOUND: the polling loop returned a batch; TIMED_OUT: it returned null
Found(c) == c.op = "check_inbox" /\ c.status = "returned" /\ c.ret # Null
TimedOut(c) == c.op = "check_inbox" /\ c.status = "returned" /\ c.ret = Null

\* what the failed call threw: a collaborator's rejection, or the TypeError
\* of the body extraction
CollaboratorError(failed) ==
  CASE failed = "authorize" -> AuthorizeError
    [] failed = "search" -> SearchError
    [] failed = "attachments" -> AttachmentsError
    [] failed = "send" -> SendError
    [] failed = "decode" -> DecodeTypeError

-----------------------------------------------------------------------------
\* C1: check_inbox returns exactly the decoded batch of the first search that
\* came back non-empty, and returns null only if every search it performed
\* came back empty; once it has returned (FOUND or TIMED_OUT) it searches and
\* sleeps no more.
C1_FirstNonEmptyOrNull ==
  /\ [](\A i \in CallsOf("check_inbox") :
          LET c == inv[i]
          IN  /\ Found(c) =>
                   /\ FirstNonEmptyAt(c.searches, Len(c.searches))
                   /\ c.ret.type = "array"
                   /\ Decodes(c.ret.val, c.searches[Len(c.searches)])
              /\ TimedOut(c) => AllEmpty(c.searches))
  /\ [][\A i \in CallsOf("check_inbox") :
          (Found(inv[i]) \/ TimedOut(inv[i])) =>
             /\ inv'[i].nSearch = inv[i].nSearch
             /\ inv'[i].nSleep = inv[i].nSleep
             /\ inv'[i].status = inv[i].status
             /\ inv'[i].ret = inv[i].ret]_vars

\* a batch found by the third search, after two empty ones
C1_Witness ==
  \E i \in CallsOf("check_inbox") :
    /\ Found(inv[i])
    /\ Len(inv[i].searches) = 3
    /\ Len(inv[i].ret.val) = 2

-----------------------------------------------------------------------------
\* C2: when a collaborator call of a check_inbox iteration (authorize, search,
\* attachment fetch) fails, check_inbox rejects with that error at once: it is
\* neither FOUND nor TIMED_OUT, and no search or sleep follows, whatever is
\* left of max_wait_time_sec.
C2_ErrorAbortsLoop ==
  /\ [](\A i \in CallsOf("check_inbox") :
          LET c == inv[i]
          IN  c.failed # "none" =>
                /\ c.status = "thrown"
                /\ c.error = CollaboratorError(c.failed)
                /\ ~Found(c) /\ ~TimedOut(c))
  /\ [][\A i \in CallsOf("check_inbox") :
          inv[i].failed # "none" =>
             /\ inv'[i].nSearch = inv[i].nSearch
             /\ inv'[i].nSleep = inv[i].nSleep
             /\ inv'[i].status = inv[i].status]_vars

\* a search fails on the second iteration with most of the budget left
C2_Witness ==
  \E i \in CallsOf("check_inbox") :
    LET c == inv[i]
    IN  /\ c.failed = "search"
        /\ c.status = "thrown"
        /\ c.nSearch = 2
        /\ c.options.wait_time_sec = Num(1)
        /\ c.options.max_wait_time_sec = Num(10)

-----------------------------------------------------------------------------
\* C3: with wait_time_sec > 0, the time check_inbox has spent sleeping (the
\* number of sleeps times wait_time_sec) never exceeds max_wait_time_sec.
C3_SleepWithinBudget ==
  \A i \in CallsOf("check_inbox") :
    LET c == inv[i]
        w == c.options.wait_time_sec
        m == c.options.max_wait_time_sec
    IN  (IsNumber(w) /\ IsNumber(m) /\ w.val > 0) => c.nSleep * w.val <= m.val

\* the budget is used up to the last whole interval
C3_Witness ==
  \E i \in CallsOf("check_inbox") :
    LET c == inv[i]
    IN  /\ c.options.wait_time_sec = Num(5)
        /\ c.options.max_wait_time_sec = Num(12)
        /\ c.nSleep = 2
        /\ TimedOut(c)

\* the smallest multiple of w that is >= m
CeilMultiple(m, w) == ((m + w - 1) \div w) * w

-----------------------------------------------------------------------------
\* C4: when every search comes back empty, check_inbox with wait_time_sec = w > 0
\* and max_wait_time_sec = m > 0 returns null after sleeping for (the
\* smallest multiple of w that is >= m) minus w in total; with w = 5, m = 12
\* it returns null after exactly two sleeps.
C4_SleptBeforeGivingUp ==
  \A i \in CallsOf("check_inbox") :
    LET c == inv[i]
        w == c.options.wait_time_sec
        m == c.options.max_wait_time_sec
    IN  (IsNumber(w) /\ IsNumber(m) /\ w.val > 0 /\ m.val > 0) =>
          \* no search is made once the budget is used up
          /\ c.nSearch * w.val <= CeilMultiple(m.val, w.val)
          /\ (c.status = "returned" /\ AllEmpty(c.searches)) =>
               /\ c.ret = Null
               /\ c.nSleep * w.val = CeilMultiple(m.val, w.val) - w.val
               /\ (w.val = 5 /\ m.val = 12 => c.nSleep = 2)

C4_Witness ==
  \E i \in CallsOf("check_inbox") :
    LET c == inv[i]
    IN  /\ c.options.wait_time_sec = Num(5)
        /\ c.options.max_wait_time_sec = Num(12)
        /\ c.status = "returned" /\ c.ret = Null
        /\ c.nSleep = 2 /\ c.nSearch = 3 /\ AllEmpty(c.searches)

-----------------------------------------------------------------------------
\* C5: if the k-th search is the first one that comes back non-empty and
\* (k-1) * wait_time_sec < max_wait_time_sec, check_inbox returns that batch
\* after exactly k-1 sleeps and k searches: it does not give up while the
\* next search is still within the budget.
C5_FoundAfterKMinusOneSleeps ==
  \A i \in CallsOf("check_inbox") :
    LET c == inv[i]
        w == c.options.wait_time_sec
        m == c.options.max_wait_time_sec
    IN  (IsNumber(w) /\ IsNumber(m) /\ c.status = "returned") =>
          /\ \A k \in 1..Len(c.searches) :
               FirstNonEmptyAt(c.searches, k) =>
                 /\ (k - 1) * w.val < m.val \/ k = 1
                 /\ c.ret.type = "array" /\ Decodes(c.ret.val, c.searches[k])
                 /\ c.nSleep = k - 1 /\ c.nSearch = k
          \* it gave up after n empty searches only when the (n+1)-th search
          \* was outside the budget
          /\ AllEmpty(c.searches) =>
               ~(Len(c.searches) * w.val < m.val)

\* empty, empty, non-empty with wait_time_sec = 1 and max_wait_time_sec = 10
C5_Witness ==
  \E i \in CallsOf("check_inbox") :
    LET c == inv[i]
    IN  /\ c.options.wait_time_sec = Num(1)
        /\ c.options.max_wait_time_sec = Num(10)
        /\ FirstNonEmptyAt(c.searches, 3)
        /\ Found(c) /\ c.nSleep = 2 /\ c.nSearch = 3

-----------------------------------------------------------------------------
\* the interval and the budget in effect when an unset wait_time_sec or
\* max_wait_time_sec stands for its default
EffectiveWait(options) ==
  IF options.wait_time_sec = Undefined THEN DefaultWaitTimeSec
  ELSE options.wait_time_sec.val

EffectiveMaxWait(options) ==
  IF options.max_wait_time_sec = Undefined THEN DefaultMaxWaitTimeSec
  ELSE options.max_wait_time_sec.val

\* C6: for every options record passed to check_inbox, also one that leaves
\* wait_time_sec or max_wait_time_sec unset, the loop runs as with 30 for the
\* unset field: after n empty searches it has waited n intervals, it sleeps
\* again only while that is below the budget, and it has returned null
\* (TIMED_OUT) as soon as the budget is reached.
C6_DefaultsForUnsetFields ==
  \A i \in CallsOf("check_inbox") :
    LET c == inv[i]
        w == EffectiveWait(c.options)
        m == EffectiveMaxWait(c.options)
    IN  (c.pc \in {"sleep", "done"} /\ c.status # "exited" /\ c.failed = "none"
         /\ AllEmpty(c.searches)) =>
          /\ c.done_waiting_time = Num(Len(c.searches) * w)
          /\ c.pc = "sleep" => Len(c.searches) * w < m
          /\ c.pc = "done" => TimedOut(c) /\ Len(c.searches) * w >= m

-----------------------------------------------------------------------------
\* C7: get_messages makes one search+decode pass, without sleeping or
\* retrying; when a collaborator call of that pass fails, get_messages does
\* not reject: it completes and delivers no email sequence (undefined),
\* whereas check_inbox and reply_to_email reject with the collaborator's error.
C7_GetMessagesSwallowsErrors ==
  /\ \A i \in CallsOf("get_messages") :
       LET c == inv[i]
       IN  /\ c.nSearch <= 1 /\ c.nSleep = 0 /\ c.nAuthorize <= 1
           /\ c.status # "thrown"
           /\ c.failed # "none" => c.status = "returned" /\ c.ret = Undefined
           /\ (c.status = "returned" /\ c.failed = "none") =>
                /\ c.nSearch = 1
                /\ c.ret.type = "array" /\ Decodes(c.ret.val, c.searches[1])
  /\ \A i \in CallsOf("check_inbox") \cup CallsOf("reply_to_email") :
       LET c == inv[i]
       IN  c.failed # "none" =>
             c.status = "thrown" /\ c.error = CollaboratorError(c.failed)

\* the search of a get_messages call failed and the call completed
C7_Witness ==
  \E i \in CallsOf("get_messages") :
    /\ inv[i].failed = "search"
    /\ inv[i].status = "returned"
    /\ inv[i].ret = Undefined

-----------------------------------------------------------------------------
\* the pass of _get_recent_email has returned its emails to the caller
PassReturned(c) ==
  c.failed \notin {"authorize", "search", "attachments", "decode"}
  /\ c.pc \in {"reply_authorize", "send", "done"}

\* a header of that name is in the message
HasHeader(name, gmail_email) ==
  \E k \in 1..Len(gmail_email.payload.headers) :
    gmail_email.payload.headers[k].name = name

\* from, subject and threadId are all present
HasRequired(gmail_email) ==
  /\ HasHeader("From", gmail_email)
  /\ HasHeader("Subject", gmail_email)
  /\ gmail_email.threadId # Undefined

\* C8: reply_to_email sends only if its search returned at least one email
\* and the first one has from, subject and threadId; with no result it
\* rejects with NotFoundError, with one of the three absent it rejects with
\* MalformedEmailError, and in both cases nothing is sent.
C8_NoSendWithoutTarget ==
  \A i \in CallsOf("reply_to_email") :
    LET c == inv[i]
    IN  /\ (c.pc \in {"reply_authorize", "send"} \/ c.sent # <<>>) =>
             /\ Len(c.searches) = 1
             /\ c.searches[1] # <<>>
             /\ HasRequired(c.searches[1][1])
        /\ (PassReturned(c) /\ c.searches[1] = <<>>) =>
             c.status = "thrown" /\ c.error = NotFoundError /\ c.sent = <<>>
        /\ (PassReturned(c) /\ c.searches[1] # <<>>
            /\ ~HasRequired(c.searches[1][1])) =>
             c.status = "thrown" /\ c.error = MalformedEmailError /\ c.sent = <<>>

\* the first result has no threadId: MalformedEmailError, nothing sent
C8_Witness ==
  \E i \in CallsOf("reply_to_email") :
    LET c == inv[i]
    IN  /\ c.searches = << <<MsgNoThread>> >>
        /\ c.status = "thrown"
        /\ c.error = MalformedEmailError
        /\ c.sent = <<>>

-----------------------------------------------------------------------------
\* C9: a reply_to_email that succeeds has made exactly one search, no sleep,
\* and then exactly one send; the send carries the threadId of the first
\* email of the search result and the To header is that email's from,
\* however many emails the search returned.
C9_ReplyToFirstResult ==
  \A i \in CallsOf("reply_to_email") :
    LET c == inv[i]
    IN  /\ c.sent # <<>> => c.nSearch = 1 /\ c.pc = "done"
        /\ c.nSearch <= 1 /\ c.nSleep = 0 /\ Len(c.sent) <= 1
        /\ c.status = "returned" =>
             LET first == EmailOf(c.searches[1][1])
             IN  /\ c.nSearch = 1 /\ Len(c.sent) = 1
                 /\ c.sent[1].resource.threadId = first.threadId
                 /\ c.messageLines[2] = "To: " \o first.from.val
                 /\ c.sent[1].resource.raw
                      = EncodeMessage(Join(c.messageLines, "\n"))
                 /\ c.ret \in SendResults

\* a reply sent when the search returned three emails
C9_Witness ==
  \E i \in CallsOf("reply_to_email") :
    LET c == inv[i]
    IN  /\ c.status = "returned"
        /\ c.searches = << <<MsgNoId, MsgReply, MsgOrder>> >>
        /\ c.sent[1].resource.threadId = Str("t6")
        /\ c.messageLines[2] = "To: fay@x.io"

-----------------------------------------------------------------------------
\* the clauses of the fields that are set (an empty string counts as unset),
\* in the order to, from, subject, after, before
ClauseList(options) ==
  (IF Truthy(options.to)
   THEN << "to:\"" \o options.to.val \o "\"" >> ELSE <<>>)
  \o (IF Truthy(options.from)
      THEN << "from:\"" \o options.from.val \o "\"" >> ELSE <<>>)
  \o (IF Truthy(options.subject)
      THEN << "subject:(" \o options.subject.val \o ")" >> ELSE <<>>)
  \o (IF Truthy(options.after)
      THEN << "after:" \o NumberToString(EpochSeconds(options.after)) >> ELSE <<>>)
  \o (IF Truthy(options.before)
      THEN << "before:" \o NumberToString(EpochSeconds(options.before)) >> ELSE <<>>)

\* the invocation has built its query from its options
QueryBuilt(c) == c.pc # "start" /\ c.status # "exited"

\* C10: for every set/unset combination of to, from, subject, after, before,
\* the query is the clauses of exactly the set fields, in the order to, from,
\* subject, after, before, joined by single spaces, with no leading or
\* trailing whitespace; with no field set it is the empty string.
C10_QueryOfSetFields ==
  \A i \in Invocations :
    LET c == inv[i]
        q == c.query
    IN  QueryBuilt(c) =>
          /\ q = Join(ClauseList(c.options), " ")
          /\ q # "" => ~IsWhiteSpace(CharAt(q, 1)) /\ ~IsWhiteSpace(CharAt(q, Len(q)))
          /\ ClauseList(c.options) = <<>> => q = ""

\* all five fields set
C10_Witness ==
  \E i \in Invocations :
    /\ QueryBuilt(inv[i])
    /\ Len(ClauseList(inv[i].options)) = 5
    /\ inv[i].query
         = "to:\"me@x.io\" from:\"ann@x.io\" subject:( Order 66 ) after:2 before:86400"

-----------------------------------------------------------------------------
\* the emails the decoder has built so far in its current pass
DecodedEmails(c) == {c.emails[n] : n \in 1..Len(c.emails)}

\* C11: every email the decoder builds has a body field if and only if
\* include_body is set in the options, and an attachments field if and only
\* if include_attachments is set; the attachments are fetched only when
\* include_attachments is set, and then once per message decoded.
C11_FieldsFollowOptions ==
  /\ [](\A i \in Invocations :
          LET c == inv[i]
          IN  /\ \A email \in DecodedEmails(c) :
                   /\ "body" \in DOMAIN email <=> Truthy(c.options.include_body)
                   /\ "attachments" \in DOMAIN email
                        <=> Truthy(c.options.include_attachments)
              /\ c.nFetch > 0 => Truthy(c.options.include_attachments)
              /\ c.pc = "attachments" => Truthy(c.options.include_attachments)
              /\ (c.status = "returned" /\ c.ret # Undefined /\ c.ret # Null
                  /\ c.op # "reply_to_email") =>
                   c.ret = Array(c.emails))
  /\ [][\A i \in Invocations :
          inv'[i].nFetch # inv[i].nFetch =>
            /\ Truthy(inv[i].options.include_attachments)
            /\ inv'[i].nFetch = inv[i].nFetch + 1
            /\ inv'[i].failed = "none" =>
                 Len(inv'[i].emails) = Len(inv[i].emails) + 1]_vars

\* two messages decoded with both options set: each has both fields
C11_Witness ==
  \E i \in CallsOf("get_messages") :
    LET c == inv[i]
    IN  /\ c.status = "returned"
        /\ c.searches = << <<MsgOrder, MsgReply>> >>
        /\ c.nFetch = 2
        /\ Truthy(c.options.include_body)
        /\ c.ret.val[1].body = [html |-> "", text |-> "hello"]
        /\ c.ret.val[2].body = [html |-> "<p>hi</p>", text |-> ""]
        /\ \A n \in 1..2 : "attachments" \in DOMAIN c.ret.val[n]

-----------------------------------------------------------------------------
(* The reply subject rule on its own: the rule is applied to a subject, and *)
(* then once more to what it gave.                                          *)

\* the longest subject tried
MaxSubjectLen == 3

\* the characters the subjects are made of
SubjectAlphabet == {"R", "r", "E", "e", ":", " ", "x"}

RECURSIVE SubjectsUpTo(_)
\* the subjects of at most n characters
SubjectsUpTo(n) ==
  IF n = 0 THEN {""}
  ELSE LET shorter == SubjectsUpTo(n - 1)
       IN  shorter \cup {s \o a : s \in shorter, a \in SubjectAlphabet}

\* the subjects an original email may carry
Subjects ==
  SubjectsUpTo(MaxSubjectLen)
  \cup {"Order", "re: Order", "RE: Order", "Re:", "Re Order", " Re: Order",
        "Fwd: Re: Order"}

NewSubjectCall(originalSubject) ==
  [op |-> "reply_subject", pc |-> "start", originalSubject |-> originalSubject,
   replySubject |-> Undefined, again |-> Undefined]

\* the subject of the reply is computed
ComputeSubject(i) ==
  /\ inv[i].pc = "start"
  /\ Set(i, With(inv[i], [pc |-> "subject",
                          replySubject |-> Str(ReplySubject(inv[i].originalSubject))]))

\* the rule is applied to the subject it computed (replying to the reply)
ComputeSubjectAgain(i) ==
  /\ inv[i].pc = "subject"
  /\ Set(i, With(inv[i], [pc |-> "done",
                          again |-> Str(ReplySubject(inv[i].replySubject.val))]))

SubjectInit == inv \in [Invocations -> {NewSubjectCall(s) : s \in Subjects}]

SubjectNext ==
  \E i \in Invocations :
    \/ ComputeSubject(i)
    \/ ComputeSubjectAgain(i)

SubjectSpec == SubjectInit /\ [][SubjectNext]_vars

\* s matches /^Re:/i: it begins with "Re:" in some mix of cases
MatchesRe(s) ==
  Len(s) >= 3 /\ SubSeq(s, 1, 3) \in {"Re:", "RE:", "rE:", "re:"}

\* C12: the reply subject is the original subject prefixed with "Re: ",
\* unless the original already matches /^Re:/i, and then it is the original
\* unchanged; the computed subject always matches /^Re:/i, and applying the
\* rule to its own output changes nothing.
C12_ReplySubjectRule ==
  \A i \in Invocations :
    LET c == inv[i]
    IN  /\ c.pc \in {"subject", "done"} =>
             /\ MatchesRe(c.originalSubject) =>
                  c.replySubject = Str(c.originalSubject)
             /\ ~MatchesRe(c.originalSubject) =>
                  c.replySubject = Str("Re: " \o c.originalSubject)
             /\ MatchesRe(c.replySubject.val)
        /\ c.pc = "done" => c.again = c.replySubject

\* a subject that begins with "re:" in lower case is kept, twice
C12_Witness ==
  \E i \in Invocations :
    /\ inv[i].pc = "done"
    /\ inv[i].originalSubject = "re: Order"
    /\ inv[i].replySubject = Str("re: Order")
    /\ inv[i].again = Str("re: Order")

-----------------------------------------------------------------------------
\* the value of the first header of that name, "" when there is none
FirstHeaderValue(name, gmail_email) ==
  LET headers == gmail_email.payload.headers
      named == {k \in 1..Len(headers) : headers[k].name = name}
  IN  IF named = {} THEN ""
      ELSE headers[CHOOSE k \in named : \A j \in named : k <= j].value

\* the message id that can be recovered from a message: its Message-ID
\* header, else its Message-Id header, "" when neither has a value
RecoverableMessageId(gmail_email) ==
  IF FirstHeaderValue("Message-ID", gmail_email) # ""
  THEN FirstHeaderValue("Message-ID", gmail_email)
  ELSE FirstHeaderValue("Message-Id", gmail_email)

\* the header lines of a reply document: the lines before its first empty one
RECURSIVE HeaderLines(_)
HeaderLines(lines) ==
  IF lines = <<>> \/ Head(lines) = "" THEN <<>>
  ELSE <<Head(lines)>> \o HeaderLines(Tail(lines))

\* the reply document has been built
ReplyBuilt(c) == c.op = "reply_to_email" /\ c.messageLines # <<>>

\* C13: the reply document has an In-Reply-To and a References header if and
\* only if the email replied to has a recoverable, non-empty message id, and
\* then both carry that id; without one the reply is still built and sent,
\* with exactly the headers From, To and Subject.
C13_ThreadingHeaders ==
  \A i \in CallsOf("reply_to_email") :
    LET c == inv[i]
        first == c.searches[1][1]
        id == RecoverableMessageId(first)
        basic == SubSeq(c.messageLines, 1, 3)
    IN  /\ ReplyBuilt(c) =>
             /\ Len(c.messageLines) >= 5
             /\ basic[1] = "From: me"
             /\ basic[2] = "To: " \o FirstHeaderValue("From", first)
             /\ \E subject \in {FirstHeaderValue("Subject", first),
                               "Re: " \o FirstHeaderValue("Subject", first)} :
                  basic[3] = "Subject: " \o subject
             /\ id # "" =>
                  HeaderLines(c.messageLines)
                    = basic \o <<"In-Reply-To: " \o id, "References: " \o id>>
             /\ id = "" => HeaderLines(c.messageLines) = basic
             /\ c.messageLines
                  = HeaderLines(c.messageLines) \o <<"", c.replyContent>>
             /\ c.status = "thrown" => c.failed \in {"authorize", "send"}
        /\ c.sent # <<>> =>
             /\ ReplyBuilt(c)
             /\ c.sent[1].resource.raw = EncodeMessage(Join(c.messageLines, "\n"))
        \* the lack of a message id does not stop the reply
        /\ (PassReturned(c) /\ c.searches[1] # <<>>
            /\ c.error # MalformedEmailError) => ReplyBuilt(c)

\* a reply sent to an email without a message id: three headers
C13_Witness ==
  \E i \in CallsOf("reply_to_email") :
    LET c == inv[i]
    IN  /\ c.status = "returned"
        /\ c.searches = << <<MsgNoId>> >>
        /\ Len(c.sent) = 1
        /\ c.messageLines
             = <<"From: me", "To: fay@x.io", "Subject: Re: Hi", "", "Thanks!">>

\* a reply sent to an email whose id is in its Message-Id header
C13_WitnessThreaded ==
  \E i \in CallsOf("reply_to_email") :
    LET c == inv[i]
    IN  /\ c.status = "returned"
        /\ c.searches = << <<MsgReply, MsgOrder>> >>
        /\ c.messageLines
             = <<"From: me", "To: bob@x.io", "Subject: re: Order",
                 "In-Reply-To: <2@x>", "References: <2@x>", "", "Thanks!">>

-----------------------------------------------------------------------------
\* the time an invocation has slept so far
Slept(c) == c.nSleep * c.options.wait_time_sec.val

\* wait_time_sec and max_wait_time_sec are both numbers
TimesGiven(c) ==
  IsNumber(c.options.wait_time_sec) /\ IsNumber(c.options.max_wait_time_sec)

\* C14, as stated: after an empty search check_inbox compares the time it has
\* already slept with max_wait_time_sec, gives up only if that time is
\* >= max_wait_time_sec and otherwise sleeps once more and searches again; so
\* with every search empty, wait_time_sec = 5 and max_wait_time_sec = 12 it
\* searches four times, having slept 0, 5, 10 and 15 seconds.
C14_GivesUpOnTimeSlept ==
  \A i \in CallsOf("check_inbox") :
    LET c == inv[i]
    IN  TimesGiven(c) =>
          /\ TimedOut(c) => Slept(c) >= c.options.max_wait_time_sec.val
          /\ (TimedOut(c) /\ c.options.wait_time_sec = Num(5)
              /\ c.options.max_wait_time_sec = Num(12)) => c.nSearch = 4

\* C14, amended: after an empty search check_inbox adds wait_time_sec to
\* done_waiting_time before it sleeps, so that what it compares with
\* max_wait_time_sec is the time already slept plus the interval it is about
\* to sleep; it gives up if that sum is >= max_wait_time_sec and otherwise
\* sleeps one interval and searches again; so with every search empty,
\* wait_time_sec = 5 and max_wait_time_sec = 12 it searches three times,
\* having slept 0, 5 and 10 seconds.
C14_GivesUpOnTimeSleptPlusInterval ==
  \A i \in CallsOf("check_inbox") :
    LET c == inv[i]
        w == c.options.wait_time_sec
        m == c.options.max_wait_time_sec
    IN  TimesGiven(c) =>
          /\ c.pc = "sleep" =>
               /\ c.done_waiting_time = Num(Slept(c) + w.val)
               /\ Slept(c) + w.val < m.val
          /\ TimedOut(c) =>
               /\ c.done_waiting_time = Num(Slept(c) + w.val)
               /\ Slept(c) + w.val >= m.val
               /\ c.nSearch = c.nSleep + 1
          /\ (TimedOut(c) /\ w = Num(5) /\ m = Num(12)) =>
               c.nSearch = 3 /\ Slept(c) = 10

\* gives up after the third empty search, 10 seconds slept and 15 counted
C14_Witness ==
  \E i \in CallsOf("check_inbox") :
    LET c == inv[i]
    IN  /\ c.options.wait_time_sec = Num(5)
        /\ c.options.max_wait_time_sec = Num(12)
        /\ TimedOut(c)
        /\ c.searches = << <<>>, <<>>, <<>> >>
        /\ c.done_waiting_time = Num(15)

-----------------------------------------------------------------------------
(* The polling loop on its own, every call it awaits returning in the end  *)

\* the options that give both wait_time_sec and max_wait_time_sec as numbers
TimedPollerOptions ==
  {o \in PollerOptions : IsNumber(o.wait_time_sec) /\ IsNumber(o.max_wait_time_sec)}

PollerInit ==
  inv \in [Invocations -> {NewCall("check_inbox", o, "") : o \in TimedPollerOptions}]

PollerNext ==
  \E i \in Invocations :
    \/ Start(i)
    \/ Authorize(i)
    \/ Search(i)
    \/ FetchAttachments(i)
    \/ Sleep(i)

\* an awaited call (authorize, search, attachment fetch, timer) is settled in
\* the end, and the invocation then runs on to its next await
PollerSpec == PollerInit /\ [][PollerNext]_vars /\ WF_vars(PollerNext)

\* the number of intervals of w that cover m
Intervals(m, w) == (m + w - 1) \div w

\* check_inbox was called with a positive wait_time_sec and a
\* max_wait_time_sec >= 0
PositiveInterval(c) ==
  /\ c.op = "check_inbox"
  /\ IsNumber(c.arg.wait_time_sec) /\ c.arg.wait_time_sec.val > 0
  /\ IsNumber(c.arg.max_wait_time_sec)

\* check_inbox was called with wait_time_sec = 0 and a max_wait_time_sec > 0
ZeroInterval(c) ==
  /\ c.op = "check_inbox"
  /\ c.arg.wait_time_sec = Num(0)
  /\ IsNumber(c.arg.max_wait_time_sec) /\ c.arg.max_wait_time_sec.val > 0

\* the invocation has ended: it returned (FOUND, TIMED_OUT) or it threw
Terminated(c) == c.pc = "done"

\* C15: if every awaited call returns, check_inbox with wait_time_sec = w > 0
\* and max_wait_time_sec = m >= 0 terminates (FOUND, TIMED_OUT or an error)
\* and makes at most max(1, ceil(m / w)) searches; with w = 0, m > 0 and
\* every search empty it never terminates: it is searching or sleeping
\* after any number of searches.
C15_Termination ==
  /\ \A i \in Invocations :
       <>(PositiveInterval(inv[i]) => Terminated(inv[i]))
  /\ [](\A i \in Invocations :
          LET c == inv[i]
          IN  /\ PositiveInterval(c) =>
                   /\ c.nSearch <= 1
                      \/ c.nSearch <= Intervals(c.arg.max_wait_time_sec.val,
                                                c.arg.wait_time_sec.val)
                   /\ Terminated(c) =>
                        Found(c) \/ TimedOut(c) \/ c.status = "thrown"
              /\ (ZeroInterval(c) /\ AllEmpty(c.searches) /\ c.failed = "none") =>
                   /\ ~Terminated(c)
                   /\ c.done_waiting_time = Num(0))

\* with wait_time_sec = 0 and max_wait_time_sec = 1, still searching after
\* more empty searches than any positive interval would allow
C15_Witness ==
  \E i \in Invocations :
    LET c == inv[i]
    IN  /\ ZeroInterval(c)
        /\ c.arg.max_wait_time_sec = Num(1)
        /\ c.nSearch = MaxSearches /\ AllEmpty(c.searches)
        /\ c.nSleep = MaxSearches
        /\ c.pc = "authorize"

\* with wait_time_sec = 1 and max_wait_time_sec = 12, TIMED_OUT after the
\* twelfth search
C15_WitnessBounded ==
  \E i \in Invocations :
    LET c == inv[i]
    IN  /\ PositiveInterval(c)
        /\ c.arg.wait_time_sec = Num(1)
        /\ c.nSearch = c.arg.max_wait_time_sec.val
        /\ c.nSearch >= MaxMaxWaitTime
        /\ TimedOut(c)

-----------------------------------------------------------------------------
(* The body extraction on its own, one iteration of its loop at a time     *)

\* leaves of a MIME tree: text with inline data, text without (its data is
\* an attachment), and a part that is no text
PartLeaves ==
  { Part("text/plain", TextHello, Undefined), Part("text/plain", TextBye, Undefined),
    Part("text/html", HtmlHi, Undefined), Part("text/html", HtmlX, Undefined),
    Part("application/pdf", Undefined, Undefined),
    Part("text/plain", Undefined, Undefined) }

\* the sequences of at most two elements of S
UpToTwo(S) == {<<>>} \cup {<<a>> : a \in S} \cup {<<a, b>> : a \in S, b \in S}

\* multipart nodes over leaves, and one nested a level deeper
PartNodes ==
  { Part("multipart/alternative", Undefined, Array(s)) : s \in UpToTwo(PartLeaves) }
  \cup { Part("multipart/related", Undefined,
              Array(<<Part("multipart/alternative", Undefined, Array(<<a, b>>))>>))
         : a \in {Part("text/plain", TextBye, Undefined)},
           b \in {Part("text/html", HtmlX, Undefined),
                  Part("application/pdf", Undefined, Undefined)} }

\* payloads without an inline body: with a parts array, or without one
MultipartPayloads ==
  { Multipart("multipart/mixed", Array(s)) : s \in UpToTwo(PartLeaves \cup PartNodes) }
  \cup { Multipart("text/plain", Undefined) }

\* payloads with an inline body, some of them with parts besides, and one
\* whose body is not inline though its size is positive
InlinePayloads ==
  LET inline == { Inline(t, 5, d) :
                    t \in {"text/plain", "text/html", "application/json",
                           "multipart/alternative"},
                    d \in {TextHello.val, HtmlX.val} }
  IN  inline
      \cup { [p EXCEPT !.parts = Array(<<q>>)] :
               p \in inline, q \in {Part("text/plain", TextBye, Undefined),
                                    Part("text/html", HtmlHi, Undefined)} }
      \cup { [Inline("text/plain", 5, "") EXCEPT !.body.data = Undefined] }

Payloads == MultipartPayloads \cup InlinePayloads

NewBodyCall(payload) ==
  [op |-> "include_body", pc |-> "start", status |-> "running",
   payload |-> payload, parts |-> <<>>, email_body |-> [html |-> "", text |-> ""],
   visited |-> <<>>, error |-> Undefined]

\* `email.body = email_body`
BodyDone(c) == With(c, [pc |-> "done", status |-> "returned"])

\* Buffer.from(undefined, ...) or the spread of undefined throws
BodyThrows(c) ==
  With(c, [pc |-> "done", status |-> "thrown", error |-> DecodeTypeError])

\* `while (parts.length)`
WhileParts(c) == IF c.parts = <<>> THEN BodyDone(c) ELSE With(c, [pc |-> "walk"])

\* from `if (options.include_body)` to the first test of the while loop
StartBody(i) ==
  LET c == inv[i]
      payload == c.payload
  IN  /\ c.pc = "start"
      /\ IF Truthy(Num(payload.body.size))
         THEN IF EmailBody(payload).ok
              THEN Set(i, BodyDone(With(c, [email_body |-> EmailBody(payload).value])))
              ELSE Set(i, BodyThrows(c))
         ELSE IF payload.parts = Undefined THEN Set(i, BodyThrows(c))
         ELSE Set(i, WhileParts(With(c, [parts |-> payload.parts.val])))

\* one iteration: shift, concat, decode, and the test of the while loop
ShiftPart(i) ==
  LET c == inv[i]
      part == Head(c.parts)
      parts == IF Truthy(part.parts) THEN Tail(c.parts) \o part.parts.val
               ELSE Tail(c.parts)
      d == With(c, [parts |-> parts, visited |-> Append(c.visited, part)])
  IN  /\ c.pc = "walk"
      /\ IF part.mimeType \in {"text/plain", "text/html"}
         THEN IF part.body.data = Undefined THEN Set(i, BodyThrows(d))
              ELSE IF part.mimeType = "text/plain"
              THEN Set(i, WhileParts(With(d, [email_body |->
                     [c.email_body EXCEPT !.text = DecodeBody(part.body.data.val)]])))
              ELSE Set(i, WhileParts(With(d, [email_body |->
                     [c.email_body EXCEPT !.html = DecodeBody(part.body.data.val)]])))
         ELSE Set(i, WhileParts(d))

BodyInit == inv \in [Invocations -> {NewBodyCall(p) : p \in Payloads}]

BodyNext ==
  \E i \in Invocations :
    \/ StartBody(i)
    \/ ShiftPart(i)

BodySpec == BodyInit /\ [][BodyNext]_vars

RECURSIVE Flatten(_)
\* the concatenation of a sequence of sequences
Flatten(ss) == IF ss = <<>> THEN <<>> ELSE Head(ss) \o Flatten(Tail(ss))

\* the children of a part, in order
Children(part) == IF Truthy(part.parts) THEN part.parts.val ELSE <<>>

RECURSIVE BreadthFirst(_)
\* the parts of a forest level by level: its roots, then the parts below
BreadthFirst(level) ==
  IF level = <<>> THEN <<>>
  ELSE level \o BreadthFirst(Flatten([n \in 1..Len(level) |-> Children(level[n])]))

\* the decoded body of the last part of that type in the order, "" if none
LastDecoded(order, mimeType) ==
  LET of == {n \in 1..Len(order) : order[n].mimeType = mimeType}
  IN  IF of = {} THEN ""
      ELSE DecodeBody(order[CHOOSE n \in of : \A k \in of : k <= n].body.data.val)

\* the payload has no inline body
EmptyInlineBody(payload) == ~Truthy(Num(payload.body.size))

\* the parts that hang below the payload
PartsBelow(payload) ==
  IF payload.parts = Undefined THEN <<>> ELSE BreadthFirst(payload.parts.val)

\* C16: for every MIME tree whose top-level inline body is empty, the walk
\* ends without an error after it has visited every part of the tree once,
\* in breadth-first order, and the text (the html) it gives is the decoded
\* body of the last text/plain (text/html) part in that order, or "" if there
\* is none.
C16_WalkVisitsEveryPart ==
  \A i \in Invocations :
    LET c == inv[i]
        order == PartsBelow(c.payload)
    IN  EmptyInlineBody(c.payload) =>
          /\ c.status # "thrown"
          /\ c.visited = SubSeq(order, 1, Len(c.visited))
          /\ c.pc = "done" =>
               /\ c.visited = order
               /\ c.email_body.text = LastDecoded(order, "text/plain")
               /\ c.email_body.html = LastDecoded(order, "text/html")

-----------------------------------------------------------------------------
\* the payload has a non-empty body and its data is inline
InlineBody(payload) ==
  Truthy(Num(payload.body.size)) /\ payload.body.data # Undefined

\* C17: when the top-level payload has a non-empty inline body, only that
\* body is decoded and no nested part is visited: with mime type text/html it
\* fills html and leaves text empty, with text/plain or any other mime type
\* it fills text and leaves html empty.
C17_InlineBodyOnly ==
  \A i \in Invocations :
    LET c == inv[i]
        decoded == DecodeBody(c.payload.body.data.val)
    IN  InlineBody(c.payload) =>
          /\ c.visited = <<>> /\ c.parts = <<>>
          /\ c.pc \in {"start", "done"}
          /\ c.status # "thrown"
          /\ c.pc = "done" =>
               /\ c.payload.mimeType = "text/html" =>
                    c.email_body = [html |-> decoded, text |-> ""]
               /\ c.payload.mimeType # "text/html" =>
                    c.email_body = [html |-> "", text |-> decoded]

\* an inline body of type application/json that has parts besides: the body
\* is the text, the parts are left alone
C17_Witness ==
  \E i \in Invocations :
    LET c == inv[i]
    IN  /\ c.pc = "done" /\ c.status = "returned"
        /\ c.payload.mimeType = "application/json"
        /\ c.payload.body.data = TextHello
        /\ c.payload.parts = Array(<<Part("text/html", HtmlHi, Undefined)>>)
        /\ c.email_body = [html |-> "", text |-> "hello"]
        /\ c.visited = <<>>

-----------------------------------------------------------------------------
(* Two invocations of check_inbox in one process: a step of one of them    *)
(* runs from an await to the next, and the steps of the two interleave.    *)

Pollers == {1, 2}

\* the options the two invocations are given
ConcurrentOptions ==
  { With(NoOptions, [subject |-> Str("Order"), wait_time_sec |-> Num(5),
                     max_wait_time_sec |-> Num(12)]),
    With(NoOptions, [from |-> Str("ann@x.io"), wait_time_sec |-> Num(1),
                     max_wait_time_sec |-> Num(2), include_body |-> Bool(TRUE)]) }

ConcurrentInit ==
  inv \in [Pollers -> {NewCall("check_inbox", o, "") : o \in ConcurrentOptions}]

ConcurrentNext ==
  \E i \in Pollers :
    \/ Start(i)
    \/ Authorize(i)
    \/ Search(i)
    \/ Sleep(i)

ConcurrentSpec == ConcurrentInit /\ [][ConcurrentNext]_vars

RECURSIVE AloneFrom(_, _, _, _)
\* what check_inbox has done, running alone, once the searches from the
\* k-th on have given these results and it has counted done_waiting_time
AloneFrom(options, results, k, done_waiting_time) ==
  LET waited == Add(done_waiting_time, options.wait_time_sec)
      outcome(status, ret) ==
        [status |-> status, ret |-> ret, nSearch |-> k, nSleep |-> k - 1]
  IN  IF results[k] # <<>>
      THEN outcome("returned",
                   Array([n \in 1..Len(results[k]) |->
                            EmailWithBody(results[k][n], options)]))
      ELSE IF GreaterOrEqual(waited, options.max_wait_time_sec)
      THEN outcome("returned", Null)
      ELSE IF k = Len(results) THEN outcome("running", Undefined)
      ELSE AloneFrom(options, results, k + 1, waited)

\* check_inbox running alone against these search results
RunAlone(options, results) == AloneFrom(options, results, 1, Num(0))

\* the invocation is between two iterations or has returned, no call of its
\* having failed
Settled(c) == c.pc \in {"sleep", "done"} /\ c.failed = "none"

\* C18: two check_inbox invocations share no mutable state: however their
\* steps interleave at the awaits, what each has returned and the number of
\* searches and of sleeps it has made are those of the same invocation
\* running alone against the same sequence of search results.
C18_NoSharedState ==
  /\ [](\A i \in Pollers :
          LET c == inv[i]
              alone == RunAlone(c.options, c.searches)
          IN  Settled(c) =>
                /\ c.status = alone.status
                /\ c.ret = alone.ret
                /\ c.nSearch = alone.nSearch
                /\ c.nSleep = alone.nSleep)
  /\ [][\A i \in Pollers :
          inv'[i] # inv[i] => \A j \in Pollers \ {i} : inv'[j] = inv[j]]_vars

\* both invocations have returned, their steps interleaved: one timed out
\* after three searches while the other found its batch at its second one
C18_Witness ==
  /\ TimedOut(inv[1]) /\ inv[1].nSearch = 3 /\ inv[1].nSleep = 2
  /\ Found(inv[2]) /\ inv[2].nSearch = 2 /\ inv[2].nSleep = 1
  /\ inv[2].options.include_body = Bool(TRUE)
  /\ inv[2].ret.val[1].body = [html |-> "", text |-> "hello"]

-----------------------------------------------------------------------------
\* C19: in every check_inbox run that ends in FOUND or TIMED_OUT the number
\* of searches is the number of sleeps plus one: at least one search is made
\* (also with max_wait_time_sec = 0), every sleep is followed by another
\* pass, and check_inbox returns only from a pass (its search and the
\* decoding of what it found), never directly from a sleep.
C19_SearchesAreSleepsPlusOne ==
  /\ [](\A i \in CallsOf("check_inbox") :
          LET c == inv[i]
          IN  /\ c.nSleep <= c.nSearch /\ c.nSearch <= c.nSleep + 1
              /\ (Found(c) \/ TimedOut(c)) =>
                   c.nSearch >= 1 /\ c.nSearch = c.nSleep + 1)
  /\ [][\A i \in CallsOf("check_inbox") :
          /\ inv'[i].nSleep # inv[i].nSleep =>
               /\ inv'[i].pc = "authorize" /\ inv'[i].status = "running"
               /\ inv'[i].nSearch = inv[i].nSearch
          /\ (inv[i].status = "running" /\ inv'[i].status = "returned") =>
               \* from the pass: its search, or its last attachment fetch
               /\ inv[i].pc \in {"search", "attachments"}
               /\ inv[i].pc = "search" => inv'[i].nSearch = inv[i].nSearch + 1
               /\ inv'[i].nSleep = inv[i].nSleep]_vars

\* max_wait_time_sec = 0: one search, no sleep, TIMED_OUT
C19_Witness ==
  \E i \in CallsOf("check_inbox") :
    LET c == inv[i]
    IN  /\ c.options.max_wait_time_sec = Num(0)
        /\ c.options.wait_time_sec = Num(3)
        /\ TimedOut(c)
        /\ c.nSearch = 1 /\ c.nSleep = 0

-----------------------------------------------------------------------------
(* refresh_access_token and the token store it writes to                   *)

\* the token kept under the given token reference before the call
StoredTokens ==
  { [access_token |-> Str("a0"), refresh_token |-> Str("r0"),
     expiry_date |-> Num(100), scope |-> Str("gmail.readonly"),
     token_type |-> Str("Bearer")],
    [access_token |-> Str("a0"), expiry_date |-> Num(100),
     token_type |-> Str("Bearer")],
    [access_token |-> Str("a1"), refresh_token |-> Str("r0")],
    [refresh_token |-> Str("r1"), expiry_date |-> Num(0)] }

\* the token set of a refresh result: each field absent, empty or given
TokenSets ==
  [access_token : {Undefined, Str(""), Str("a1")},
   refresh_token : {Undefined, Str(""), Str("r1")},
   expiry_date : {Undefined, Num(0), Num(200)}]

\* what oAuth2Client.refreshToken resolves with
RefreshResults ==
  {Undefined, Null, [tokens |-> Undefined, res |-> Null]}
  \cup {[tokens |-> t, res |-> Null] : t \in TokenSets}

RefreshTokenError == Error("refresh failed")
RefreshFailedError == Error("Refresh access token failed!")

\* tokenStore.get(token): the token kept under that reference
TokenStoreGet(c) == c.tokenStore

\* tokenStore.store(new_token, token)
TokenStoreStore(c, new_token) ==
  With(c, [tokenStore |-> new_token, stored |-> Append(c.stored, new_token)])

NewRefreshCall(token) ==
  [op |-> "refresh_access_token", pc |-> "start", status |-> "running",
   ret |-> Undefined, error |-> Undefined, failed |-> "none",
   previous_token |-> token, tokenStore |-> token, stored |-> <<>>,
   refresh_token_result |-> Undefined, nAuthorize |-> 0, nRefresh |-> 0]

\* ToBoolean of a value that may be an object: an object is true
TruthyOrObject(v) == TypeOf(v) = "object" \/ Truthy(v)

\* refresh_token_result && refresh_token_result.tokens
HasTokens(refresh_token_result) ==
  /\ TruthyOrObject(refresh_token_result)
  /\ TruthyOrObject(refresh_token_result.tokens)

\* the token with every field of the refresh result, given or not
NewToken_Overwrite(new_token, tokens) ==
  WithField(WithField(WithField(new_token,
    "access_token", tokens.access_token),
    "refresh_token", tokens.refresh_token),
    "expiry_date", tokens.expiry_date)

\* the three `if (refresh_token_result.tokens.<f>) new_token.<f> = ...`
NewToken(new_token, tokens) ==
  LET a == IF Truthy(tokens.access_token)
           THEN WithField(new_token, "access_token", tokens.access_token)
           ELSE new_token
      r == IF Truthy(tokens.refresh_token)
           THEN WithField(a, "refresh_token", tokens.refresh_token)
           ELSE a
  IN  IF Truthy(tokens.expiry_date)
      THEN WithField(r, "expiry_date", tokens.expiry_date)
      ELSE r

\* refresh_access_token is entered and awaits gmail.authorize
RefreshStart(i) ==
  /\ inv[i].pc = "start"
  /\ Set(i, With(inv[i], [pc |-> "authorize"]))

\* `await gmail.authorize(credentials, token)`
RefreshAuthorize(i) ==
  LET c == With(inv[i], [nAuthorize |-> inv[i].nAuthorize + 1])
  IN  /\ inv[i].pc = "authorize"
      /\ \/ Set(i, With(c, [pc |-> "refresh"]))
         \/ Set(i, Reject(With(c, [failed |-> "authorize"]), AuthorizeError))

\* `await oAuth2Client.refreshToken(...)` and the rest of the function
RefreshToken(i) ==
  LET c == With(inv[i], [nRefresh |-> inv[i].nRefresh + 1])
  IN  /\ inv[i].pc = "refresh"
      /\ \/ \E refresh_token_result \in RefreshResults :
              LET d == With(c, [refresh_token_result |-> refresh_token_result])
              IN  IF HasTokens(refresh_token_result)
                  THEN Set(i, Return(TokenStoreStore(d,
                                NewToken(TokenStoreGet(d), refresh_token_result.tokens)),
                              Undefined))
                  ELSE Set(i, Reject(d, RefreshFailedError))
         \/ Set(i, Reject(With(c, [failed |-> "refresh"]), RefreshTokenError))

RefreshInit == inv \in [Invocations -> {NewRefreshCall(t) : t \in StoredTokens}]

RefreshNext ==
  \E i \in Invocations :
    \/ RefreshStart(i)
    \/ RefreshAuthorize(i)
    \/ RefreshToken(i)

RefreshSpec == RefreshInit /\ [][RefreshNext]_vars

\* the fields refresh_access_token may set
RefreshedFields == {"access_token", "refresh_token", "expiry_date"}

\* the value of a field of a token, undefined when the token has none
FieldOf(token, f) == IF f \in DOMAIN token THEN token[f] ELSE Undefined

\* C20: refresh_access_token writes to the token store at most once, and only
\* when the refresh call returned a token set; the token it stores differs
\* from the one stored before only in those of access_token, refresh_token,
\* expiry_date that the refresh result gives (a field it gives takes the
\* given value, every other field is as before); when authorize or the
\* refresh call fails, or the result has no token set, the call fails and
\* the token store is as before.
C20_RefreshWritesOnce ==
  /\ [](\A i \in Invocations :
          LET c == inv[i]
              result == c.refresh_token_result
          IN  /\ Len(c.stored) <= 1
              /\ c.stored = <<>> => c.tokenStore = c.previous_token
              /\ c.stored # <<>> =>
                   /\ c.status = "returned" /\ c.nRefresh = 1
                   /\ result \notin {Undefined, Null} /\ result.tokens # Undefined
                   /\ c.tokenStore = c.stored[1]
                   /\ \A f \in DOMAIN c.tokenStore \cup DOMAIN c.previous_token :
                        IF f \in RefreshedFields /\ Truthy(result.tokens[f])
                        THEN FieldOf(c.tokenStore, f) = result.tokens[f]
                        ELSE /\ f \in DOMAIN c.tokenStore
                             /\ f \in DOMAIN c.previous_token
                             /\ c.tokenStore[f] = c.previous_token[f]
              /\ c.pc = "done" =>
                   /\ c.status = "returned" <=> c.stored # <<>>
                   /\ c.status = "thrown" <=>
                        \/ c.failed \in {"authorize", "refresh"}
                        \/ result \in {Undefined, Null}
                        \/ result.tokens = Undefined
                   /\ c.status = "thrown" => c.tokenStore = c.previous_token)
  /\ [][\A i \in Invocations :
          inv'[i].tokenStore # inv[i].tokenStore => inv[i].pc = "refresh"]_vars

\* the result gives a new access token and expiry date, and an empty refresh
\* token: the stored token takes the two and keeps the rest
C20_Witness ==
  \E i \in Invocations :
    LET c == inv[i]
    IN  /\ c.status = "returned"
        /\ c.refresh_token_result.tokens
             = [access_token |-> Str("a1"), refresh_token |-> Str(""),
                expiry_date |-> Num(200)]
        /\ c.previous_token
             = [access_token |-> Str("a0"), refresh_token |-> Str("r0"),
                expiry_date |-> Num(100), scope |-> Str("gmail.readonly"),
                token_type |-> Str("Bearer")]
        /\ c.stored
             = << [access_token |-> Str("a1"), refresh_token |-> Str("r0"),
                   expiry_date |-> Num(200), scope |-> Str("gmail.readonly"),
                   token_type |-> Str("Bearer")] >>

\* the result has no token set: the call fails, nothing was stored
C20_WitnessNoTokens ==
  \E i \in Invocations :
    /\ inv[i].status = "thrown"
    /\ inv[i].error = RefreshFailedError
    /\ inv[i].refresh_token_result = [tokens |-> Undefined, res |-> Null]
    /\ inv[i].stored = <<>>

====
